---- MODULE Spec2Model ----
(***************************************************************************)
(* Model of shaderpackage.py: the Oblivion shader package (.sdp) codec.    *)
(*                                                                         *)
(* A file is a sequence of bytes (0..255).  A Shader is a record           *)
(* [filename, shader_data]: filename a sequence of Unicode code points,    *)
(* shader_data a sequence of bytes.  A ShaderPackage is a sequence of      *)
(* Shaders.  Python exceptions are modelled by the name of their class;    *)
(* assert statements are executed (the interpreter's default mode).        *)
(***************************************************************************)
EXTENDS Integers, Sequences, FiniteSets, TLC

VARIABLES
    pkg,          \* the in-memory ShaderPackage (`self`), a list of Shaders
    file,         \* the bytes of the package file on disk
    pc,           \* where write_file is: build, w_entries, written, w_failed
    wi,           \* number of shaders write_file's loop has written
    size_offset,  \* write_file's local: position of the data_size field
    w_err,        \* exception that ended write_file ("none" if none)
    how,          \* how the file handed to from_shaderpackage was derived
    infile,       \* the bytes from_shaderpackage read
    rd            \* outcome of from_shaderpackage

vars == <<pkg, file, pc, wi, size_offset, w_err, how, infile, rd>>

----------------------------------------------------------------------------
(* Bounds and program constants *)

\* Largest number of shaders in a package.
MaxShaders == 2

\* size=0x100 of write_name, and the read(0x100) of Shader.from_stream
NameSize == 256

\* ShaderPackage.MAGIC
MAGIC == 100

----------------------------------------------------------------------------
(* Byte helpers *)

Rep(b, n) == [i \in 1..n |-> b]

Min2(a, b) == IF a <= b THEN a ELSE b

\* struct.Struct('<i').pack: little-endian two's complement, 4 bytes.
\* (\div floors and % is non-negative, which yields two's complement.)
pack_int32(v) ==
    << v % 256, (v \div 256) % 256, (v \div 65536) % 256, (v \div 16777216) % 256 >>

\* struct.Struct('<i').unpack on exactly 4 bytes: signed.
unpack_int32(b) ==
    b[1] + 256 * b[2] + 65536 * b[3]
      + 16777216 * (IF b[4] >= 128 THEN b[4] - 256 ELSE b[4])

\* BufferedReader.read(n) for n >= 0 at position pos: at most n bytes, fewer at
\* the end of the file, never an error.
stream_read(f, pos, n) == SubSeq(f, pos + 1, Min2(Len(f), pos + n))

\* read_int32: unpack(input_stream.read(4))[0]; struct.error on a short read.
read_int32(f, pos) ==
    LET data == stream_read(f, pos, 4) IN
    IF Len(data) < 4
      THEN [err |-> "struct.error", value |-> 0, pos |-> pos + Len(data)]
      ELSE [err |-> "ok", value |-> unpack_int32(data), pos |-> pos + 4]

----------------------------------------------------------------------------
(* UTF-8 *)

IsCont(b) == b >= 128 /\ b <= 191

\* str.encode('utf8') of one code point; <<>> stands for UnicodeEncodeError
\* (a lone surrogate).
utf8_encode_char(c) ==
    IF c < 128 THEN << c >>
    ELSE IF c < 2048 THEN << 192 + (c \div 64), 128 + (c % 64) >>
    ELSE IF c >= 55296 /\ c <= 57343 THEN << >>
    ELSE IF c < 65536
      THEN << 224 + (c \div 4096), 128 + ((c \div 64) % 64), 128 + (c % 64) >>
    ELSE << 240 + (c \div 262144), 128 + ((c \div 4096) % 64),
            128 + ((c \div 64) % 64), 128 + (c % 64) >>

RECURSIVE utf8_encode_from(_, _)
utf8_encode_from(s, i) ==
    IF i > Len(s) THEN << >>
    ELSE LET na == {j \in i..Len(s) : s[j] >= 128} IN
         IF na = {} THEN SubSeq(s, i, Len(s))
         ELSE LET j == CHOOSE x \in na : \A y \in na : x <= y IN
              SubSeq(s, i, j - 1) \o utf8_encode_char(s[j]) \o utf8_encode_from(s, j + 1)

\* name.encode('utf8'): the bytes of a string of code points.
utf8_encode(s) == utf8_encode_from(s, 1)

\* Length in bytes of the UTF-8 sequence a lead byte starts; 0: not a lead byte.
utf8_len(b) ==
    IF b < 128 THEN 1
    ELSE IF b >= 194 /\ b <= 223 THEN 2
    ELSE IF b >= 224 /\ b <= 239 THEN 3
    ELSE IF b >= 240 /\ b <= 244 THEN 4
    ELSE 0

\* Whether b[j..j+n-1] is one well-formed UTF-8 sequence (strict decoder: no
\* overlong forms, no surrogates, nothing above U+10FFFF).
utf8_valid_at(b, j) ==
    LET n == utf8_len(b[j]) IN
    /\ n > 0
    /\ j + n - 1 <= Len(b)
    /\ \A k \in (j + 1)..(j + n - 1) : IsCont(b[k])
    /\ (b[j] = 224) => b[j + 1] >= 160
    /\ (b[j] = 237) => b[j + 1] <= 159
    /\ (b[j] = 240) => b[j + 1] >= 144
    /\ (b[j] = 244) => b[j + 1] <= 143

utf8_char_at(b, j) ==
    LET n == utf8_len(b[j]) IN
    IF n = 1 THEN b[j]
    ELSE IF n = 2 THEN (b[j] - 192) * 64 + (b[j + 1] - 128)
    ELSE IF n = 3
      THEN (b[j] - 224) * 4096 + (b[j + 1] - 128) * 64 + (b[j + 2] - 128)
    ELSE (b[j] - 240) * 262144 + (b[j + 1] - 128) * 4096
           + (b[j + 2] - 128) * 64 + (b[j + 3] - 128)

RECURSIVE utf8_decode_from(_, _)
utf8_decode_from(b, i) ==
    IF i > Len(b) THEN [err |-> "ok", chars |-> << >>]
    ELSE LET na == {j \in i..Len(b) : b[j] >= 128} IN
         IF na = {} THEN [err |-> "ok", chars |-> SubSeq(b, i, Len(b))]
         ELSE LET j == CHOOSE x \in na : \A y \in na : x <= y IN
              IF ~utf8_valid_at(b, j)
                THEN [err |-> "UnicodeDecodeError", chars |-> << >>]
                ELSE LET rest == utf8_decode_from(b, j + utf8_len(b[j])) IN
                     IF rest.err # "ok" THEN rest
                     ELSE [err |-> "ok",
                           chars |-> SubSeq(b, i, j - 1) \o << utf8_char_at(b, j) >>
                                       \o rest.chars]

\* Mutant of utf8_decode: the bytes taken one per character (a single-byte
\* decoding in place of UTF-8).
utf8_decode_single_byte(b) == [err |-> "ok", chars |-> b]

\* bytes.decode('utf8'): the code points, or UnicodeDecodeError.
utf8_decode(b) == utf8_decode_from(b, 1)

----------------------------------------------------------------------------
(* bytes.strip(b'\x00'): drops the zero bytes at BOTH ends. *)

\* Least element of a non-empty set of integers.
SetMin(S) == CHOOSE x \in S : \A y \in S : x <= y

\* Index of the first non-zero byte, Len(b) + 1 if there is none.
lstrip_at(b) ==
    LET nz == {i \in 1..Len(b) : b[i] # 0} IN
    IF nz = {} THEN Len(b) + 1 ELSE SetMin(nz)

\* Index of the last non-zero byte, 0 if there is none.
rstrip_at(b) ==
    LET nz == {k \in 1..Len(b) : b[Len(b) + 1 - k] # 0} IN
    IF nz = {} THEN 0 ELSE Len(b) + 1 - SetMin(nz)

strip(b) == SubSeq(b, lstrip_at(b), rstrip_at(b))

----------------------------------------------------------------------------
(* Writing *)

\* Mutant of write_name: the assertion off by one (len(name) < size).
write_name_strict(name) ==
    LET enc == utf8_encode(name) IN
    IF ~(Len(enc) < NameSize)
      THEN [err |-> "AssertionError", bytes |-> << >>]
      ELSE [err |-> "ok", bytes |-> enc \o Rep(0, NameSize - Len(enc))]

\* Mutant of write_name: the length is asserted after the write, so the first
\* 256 bytes of an oversized name reach the file.
write_name_late_assert(name) ==
    LET enc == utf8_encode(name) IN
    IF ~(Len(enc) <= NameSize)
      THEN [err |-> "AssertionError", bytes |-> SubSeq(enc, 1, NameSize)]
      ELSE [err |-> "ok", bytes |-> enc \o Rep(0, NameSize - Len(enc))]

\* write_name: the bytes written, or AssertionError when the encoded name is
\* longer than the field.
write_name(name) ==
    LET enc == utf8_encode(name) IN
    IF ~(Len(enc) <= NameSize)
      THEN [err |-> "AssertionError", bytes |-> << >>]
      ELSE [err |-> "ok", bytes |-> enc \o Rep(0, NameSize - Len(enc))]

\* Shader.write_stream: name field, int32 length, payload.  The name is written
\* (or fails) before anything else of the entry.  bytes is what reached the
\* stream, also when an exception ended the call.  (write_int32 fails only
\* for a payload of 2^31 bytes or more, beyond any payload modelled here.)
write_stream(shader) ==
    LET nm == write_name(shader.filename) IN
    IF nm.err # "ok" THEN nm
    ELSE [err |-> "ok",
          bytes |-> nm.bytes \o pack_int32(Len(shader.shader_data))
                      \o shader.shader_data]

\* output_stream.tell() of a stream that has only been appended to.
tell(f) == Len(f)

\* Mutant of data_size_of: the header counted in.
data_size_with_header(f) == tell(f)

\* size = output_stream.tell() - 12: the header is not counted.
data_size_of(f) == tell(f) - 12

\* seek(off) followed by write(bytes), off within the file: the bytes replace
\* those at off and what follows them stays.
write_at(f, off, bytes) ==
    SubSeq(f, 1, off) \o bytes \o SubSeq(f, off + Len(bytes) + 1, Len(f))

----------------------------------------------------------------------------
(* Reading *)

\* Shader.from_stream at position pos of f.  read(0x100) may return fewer bytes
\* (no check); read(size) returns at most size bytes (no check), everything to
\* the end for size = -1, and raises ValueError for size < -1.
from_stream(f, pos) ==
    LET raw  == stream_read(f, pos, NameSize)
        p1   == pos + Len(raw)
        name == utf8_decode(strip(raw))
        sz   == read_int32(f, p1)
        size == sz.value
        fail(e, p) == [err |-> e, shader |-> [filename |-> << >>, shader_data |-> << >>],
                       pos |-> p, size |-> 0]
    IN
    IF name.err # "ok" THEN fail(name.err, p1)
    ELSE IF sz.err # "ok" THEN fail(sz.err, sz.pos)
    ELSE IF size < -1 THEN fail("ValueError", sz.pos)
    ELSE LET data == IF size = -1 THEN SubSeq(f, sz.pos + 1, Len(f))
                     ELSE stream_read(f, sz.pos, size) IN
         [err |-> "ok",
          shader |-> [filename |-> name.chars, shader_data |-> data],
          pos |-> sz.pos + Len(data),
          size |-> size]

\* cls(Shader.from_stream(input_stream) for _ in range(count)): n more entries
\* from pos on; the first exception ends the decode.  range(n) is empty for
\* n <= 0.
RECURSIVE read_shaders(_, _, _, _, _)
read_shaders(f, pos, n, entries, sizes) ==
    IF n <= 0 THEN [err |-> "ok", entries |-> entries, pos |-> pos, sizes |-> sizes]
    ELSE LET r == from_stream(f, pos) IN
         IF r.err # "ok"
           THEN [err |-> r.err, entries |-> << >>, pos |-> r.pos, sizes |-> sizes]
           ELSE read_shaders(f, r.pos, n - 1, Append(entries, r.shader),
                             Append(sizes, r.size))

\* Mutant of from_shaderpackage: the magic is read and not checked.
from_shaderpackage_no_magic_check(f) ==
    LET magic == read_int32(f, 0)
        count == read_int32(f, 4)
        data_size == read_int32(f, 8)
        fail(e, p) == [err |-> e, entries |-> << >>, pos |-> p, sizes |-> << >>]
    IN
    IF magic.err # "ok" THEN fail(magic.err, magic.pos)
    ELSE IF count.err # "ok" THEN fail(count.err, count.pos)
    ELSE IF data_size.err # "ok" THEN fail(data_size.err, data_size.pos)
    ELSE read_shaders(f, data_size.pos, count.value, << >>, << >>)

\* Mutant of from_shaderpackage: data_size is asserted to be the file size less
\* the header.
from_shaderpackage_size_checked(f) ==
    LET magic == read_int32(f, 0)
        count == read_int32(f, 4)
        data_size == read_int32(f, 8)
        fail(e, p) == [err |-> e, entries |-> << >>, pos |-> p, sizes |-> << >>]
    IN
    IF magic.err # "ok" THEN fail(magic.err, magic.pos)
    ELSE IF ~(magic.value = MAGIC) THEN fail("AssertionError", magic.pos)
    ELSE IF count.err # "ok" THEN fail(count.err, count.pos)
    ELSE IF data_size.err # "ok" THEN fail(data_size.err, data_size.pos)
    ELSE IF ~(data_size.value = Len(f) - 12) THEN fail("AssertionError", data_size.pos)
    ELSE read_shaders(f, data_size.pos, count.value, << >>, << >>)

\* ShaderPackage.from_shaderpackage on the bytes f.  The outcome: err, the
\* exception ("ok": none); entries, the package returned; pos, the stream
\* position reached; sizes, the shader_size fields of the entries decoded.
from_shaderpackage(f) ==
    LET magic == read_int32(f, 0)
        count == read_int32(f, 4)
        data_size == read_int32(f, 8)
        fail(e, p) == [err |-> e, entries |-> << >>, pos |-> p, sizes |-> << >>]
    IN
    IF magic.err # "ok" THEN fail(magic.err, magic.pos)
    ELSE IF ~(magic.value = MAGIC) THEN fail("AssertionError", magic.pos)
    ELSE IF count.err # "ok" THEN fail(count.err, count.pos)
    ELSE IF data_size.err # "ok" THEN fail(data_size.err, data_size.pos)
    ELSE read_shaders(f, data_size.pos, count.value, << >>, << >>)

----------------------------------------------------------------------------
(* Inputs *)

\* File names, as code points: empty, "A", U+00E9 (2 bytes in UTF-8), with a
\* NUL at either end, and two long ones ending in U+00E9: 255 characters in
\* 256 bytes and 256 characters in 257 bytes.
Names ==
    { << >>, << 65 >>, << 233 >>, << 65, 0 >>, << 0, 65 >>,
      Rep(65, NameSize - 2) \o << 233 >>,
      Rep(65, NameSize - 1) \o << 233 >> }

Payloads == { << >>, << 0, 255 >> }

Shaders == [filename : Names, shader_data : Payloads]

\* Offset in the written file of entry i of package p (header: 12 bytes).
RECURSIVE EntryOffset(_, _)
EntryOffset(p, i) ==
    IF i <= 1 THEN 12
    ELSE EntryOffset(p, i - 1) + NameSize + 4 + Len(p[i - 1].shader_data)

\* The ways the file handed to the decoder is derived from the file written
\* for package p: as it is, a header field or a shader_size field overwritten,
\* bytes added at the end.  (A "magic" input is also cut to its first at bytes.)
Hows(f, p) ==
    {[kind |-> "intact", at |-> 0, val |-> 0]}
    \cup {[kind |-> "magic", at |-> n, val |-> m] :
              n \in {4, 12, Len(f)}, m \in {0, 101, -100, 25600}}
    \cup {[kind |-> "count", at |-> 4, val |-> c] :
              c \in {-1, -7, Len(p) - 1, Len(p) + 1}}
    \cup {[kind |-> "dsize", at |-> 8, val |-> d] : d \in {0, -1, Len(f) - 11}}
    \cup UNION {{[kind |-> "ssize", at |-> EntryOffset(p, i) + NameSize, val |-> s] :
                     s \in {-1, -2, 0, Len(p[i].shader_data) + 1}} : i \in 1..Len(p)}
    \cup {[kind |-> "tail", at |-> n, val |-> b] : n \in {1, 5}, b \in {0, 65}}

\* The file cut at every offset before its end.
Truncations(f) == {[kind |-> "truncate", at |-> n, val |-> 0] : n \in 0..(Len(f) - 1)}

MakeInput(f, h) ==
    CASE h.kind = "intact"   -> f
      [] h.kind = "truncate" -> SubSeq(f, 1, h.at)
      [] h.kind = "magic"    -> write_at(SubSeq(f, 1, h.at), 0, pack_int32(h.val))
      [] h.kind = "tail"     -> f \o Rep(h.val, h.at)
      [] OTHER               -> write_at(f, h.at, pack_int32(h.val))

NoHow == [kind |-> "none", at |-> 0, val |-> 0]

NoResult == [err |-> "none", entries |-> << >>, pos |-> 0, sizes |-> << >>]

----------------------------------------------------------------------------
(* Actions *)

Init ==
    /\ pkg = << >>
    /\ file = << >>
    /\ pc = "build"
    /\ wi = 0
    /\ size_offset = 0
    /\ w_err = "none"
    /\ how = NoHow
    /\ infile = << >>
    /\ rd = NoResult

\* list.append on the package (ShaderPackage is a list).
AppendShader ==
    /\ pc = "build"
    /\ Len(pkg) < MaxShaders
    /\ \E s \in Shaders : pkg' = Append(pkg, s)
    /\ UNCHANGED <<file, pc, wi, size_offset, w_err, how, infile, rd>>

\* write_file up to the loop: open(filename, 'wb') truncates the file, then
\* magic, count, and after tell() a data_size of 0.
WriteHeader ==
    /\ pc = "build"
    /\ LET f2 == pack_int32(MAGIC) \o pack_int32(Len(pkg)) IN
       /\ size_offset' = tell(f2)
       /\ file' = f2 \o pack_int32(0)
    /\ pc' = "w_entries"
    /\ wi' = 0
    /\ UNCHANGED <<pkg, w_err, how, infile, rd>>

\* One iteration of write_file's loop: shader.write_stream(output_stream).  An
\* exception leaves the with block, which closes the file with what was written.
WriteShader ==
    /\ pc = "w_entries"
    /\ wi < Len(pkg)
    /\ LET r == write_stream(pkg[wi + 1]) IN
       IF r.err = "ok"
         THEN /\ file' = file \o r.bytes
              /\ wi' = wi + 1
              /\ UNCHANGED <<pc, w_err>>
         ELSE /\ file' = file \o r.bytes
              /\ pc' = "w_failed"
              /\ w_err' = r.err
              /\ UNCHANGED wi
    /\ UNCHANGED <<pkg, size_offset, how, infile, rd>>

\* write_file after the loop: size = tell() - 12, seek(size_offset), write it.
WriteBackpatch ==
    /\ pc = "w_entries"
    /\ wi = Len(pkg)
    /\ LET size == data_size_of(file) IN
       file' = write_at(file, size_offset, pack_int32(size))
    /\ pc' = "written"
    /\ UNCHANGED <<pkg, wi, size_offset, w_err, how, infile, rd>>

\* from_shaderpackage on the file derived by h from the file on disk.  The
\* decode depends on nothing but the bytes it is given, so one read per run
\* covers every read.
ReadAs(h) ==
    /\ how = NoHow
    /\ how' = h
    /\ infile' = MakeInput(file, h)
    /\ rd' = from_shaderpackage(MakeInput(file, h))
    /\ UNCHANGED <<pkg, file, pc, wi, size_offset, w_err>>

\* from_shaderpackage on the file written, or on a file derived from it.  A file
\* left by a failed write_file is read as it is.
ReadPackage ==
    /\ pc \in {"written", "w_failed"}
    /\ \E h \in (IF pc = "written" THEN Hows(file, pkg)
                 ELSE {[kind |-> "intact", at |-> 0, val |-> 0]}) : ReadAs(h)

\* from_shaderpackage on a truncated copy of the file written.
ReadTruncated ==
    /\ pc = "written"
    /\ \E h \in Truncations(file) : ReadAs(h)

Next ==
    \/ AppendShader
    \/ WriteHeader
    \/ WriteShader
    \/ WriteBackpatch
    \/ ReadPackage

Spec == Init /\ [][Next]_vars

\* The same, with the truncated files among the decoder's inputs.
NextTrunc ==
    \/ AppendShader
    \/ WriteHeader
    \/ WriteShader
    \/ WriteBackpatch
    \/ ReadPackage
    \/ ReadTruncated

SpecTrunc == Init /\ [][NextTrunc]_vars

----------------------------------------------------------------------------
(* Properties *)

\* The int32 field at byte offset off of f.
FieldAt(f, off) == unpack_int32(SubSeq(f, off + 1, off + 4))

RECURSIVE SumEntrySizes(_, _)
SumEntrySizes(p, n) ==
    IF n = 0 THEN 0 ELSE SumEntrySizes(p, n - 1) + 256 + 4 + Len(p[n].shader_data)

RECURSIVE SumSizeFields(_, _)
SumSizeFields(sizes, n) ==
    IF n = 0 THEN 0 ELSE SumSizeFields(sizes, n - 1) + 256 + 4 + sizes[n]

\* The name without the NUL characters at its two ends.
TrimNul(name) ==
    LET nz == {i \in 1..Len(name) : name[i] # 0} IN
    IF nz = {} THEN << >>
    ELSE SubSeq(name, CHOOSE x \in nz : \A y \in nz : x <= y,
                      CHOOSE x \in nz : \A y \in nz : y <= x)

\* Entry i of pkg stands complete in the file at its offset: the name bytes
\* padded with zeros to 256, the payload length, the payload.
EntryComplete(i) ==
    LET off == 12 + SumEntrySizes(pkg, i - 1)
        enc == utf8_encode(pkg[i].filename)
        data == pkg[i].shader_data
    IN /\ Len(enc) <= 256
       /\ Len(file) >= off + 256 + 4 + Len(data)
       /\ SubSeq(file, off + 1, off + 256) = enc \o Rep(0, 256 - Len(enc))
       /\ FieldAt(file, off + 256) = Len(data)
       /\ SubSeq(file, off + 261, off + 260 + Len(data)) = data

ReadIntact == pc = "written" /\ how.kind = "intact"

C2_TruncationFails == (pc = "written" /\ how.kind = "truncate") => rd.err # "ok"

\* C3: a file whose first 4 bytes are not 64 00 00 00 fails at the magic check,
\* whatever follows, and no entry is decoded: nothing is read past the magic.
C3_BadMagic ==
    (how.kind # "none" /\ Len(infile) >= 4 /\ SubSeq(infile, 1, 4) # << 100, 0, 0, 0 >>)
        => /\ rd.err = "AssertionError"
           /\ rd.entries = << >>
           /\ rd.sizes = << >>
           /\ rd.pos = 4

C3_Witness ==
    /\ how.kind = "magic"
    /\ how.val = 25600
    /\ Len(pkg) = 2
    /\ Len(infile) = Len(file)
    /\ rd.err = "AssertionError"

\* C4: after a successful write_file the data_size field at offset 8 is the sum
\* over the entries of 256 + 4 + len(payload), which is the file length less
\* the 12 bytes of the header; 0 for the empty package.
C4_DataSize ==
    pc = "written"
        => /\ FieldAt(file, 8) = SumEntrySizes(pkg, Len(pkg))
           /\ FieldAt(file, 8) = Len(file) - 12

C4_Witness ==
    /\ pc = "written"
    /\ Len(pkg) = 2
    /\ pkg[1].shader_data # << >>
    /\ pkg[2].shader_data # << >>
    /\ FieldAt(file, 8) = 524

\* C5: decoding a file whose count field is negative never succeeds.
C5_NegativeCountFails == (how.kind = "count" /\ how.val < 0) => rd.err # "ok"

\* C6: decoding a record whose shader_size field is negative never succeeds.
C6_NegativeSizeFails == (how.kind = "ssize" /\ how.val < 0) => rd.err # "ok"

\* C7: a name of at most 256 encoded bytes is written as its bytes followed by
\* zeros up to 256 (none for exactly 256); write_file fails on a name only when
\* it encodes to 257 bytes or more, and then with the assertion of write_name;
\* a name field of zeros only is read back as the empty name.
C7_NameBoundary ==
    /\ \A i \in 1..wi :
          LET off == 12 + SumEntrySizes(pkg, i - 1)
              enc == utf8_encode(pkg[i].filename)
          IN /\ Len(enc) <= 256
             /\ SubSeq(file, off + 1, off + 256) = enc \o Rep(0, 256 - Len(enc))
    /\ pc = "w_failed"
          => /\ w_err = "AssertionError"
             /\ Len(utf8_encode(pkg[wi + 1].filename)) >= 257
    /\ (pc = "w_entries" /\ wi < Len(pkg)
          /\ Len(utf8_encode(pkg[wi + 1].filename)) >= 257)
          => ~ENABLED (WriteShader /\ pc' = "w_entries")
    /\ (ReadIntact /\ rd.err = "ok")
          => \A i \in 1..Len(rd.entries) :
                LET off == 12 + SumEntrySizes(pkg, i - 1) IN
                SubSeq(infile, off + 1, off + 256) = Rep(0, 256)
                    => rd.entries[i].filename = << >>

C7_Witness ==
    /\ pc = "w_failed"
    /\ wi = 1
    /\ Len(utf8_encode(pkg[1].filename)) = 256
    /\ Len(utf8_encode(pkg[2].filename)) = 257
    /\ how.kind = "intact"

\* C8: the decoder does not look at data_size: a file and the same file with
\* other bytes in the data_size field decode to the same outcome.
C8_DataSizeIgnored ==
    (how.kind # "none" /\ Len(infile) >= 12)
        => \A d \in {-1, 7} :
              from_shaderpackage(write_at(infile, 8, pack_int32(d))) = rd

C8_Witness ==
    /\ how.kind = "dsize"
    /\ Len(pkg) = 2
    /\ FieldAt(infile, 8) # Len(infile) - 12
    /\ rd.err = "ok"
    /\ Len(rd.entries) = 2

\* C9: a successful decode has read exactly 12 bytes plus, for each entry
\* decoded, 256 + 4 + its shader_size field.
C9_ExactConsumption ==
    (how.kind # "none" /\ rd.err = "ok")
        => rd.pos = 12 + SumSizeFields(rd.sizes, Len(rd.sizes))

\* C10: while write_file writes entries, and after it failed on an oversized
\* name, the file is magic 100, the full count, a data_size of 0, and exactly
\* the entries written so far, complete; the failing entry left no byte; the
\* data_size is patched only once every entry is written.
C10_WriteOrder ==
    /\ pc \in {"w_entries", "w_failed"}
          => /\ FieldAt(file, 0) = 100
             /\ FieldAt(file, 4) = Len(pkg)
             /\ FieldAt(file, 8) = 0
             /\ Len(file) = 12 + SumEntrySizes(pkg, wi)
             /\ \A i \in 1..wi : EntryComplete(i)
    /\ pc = "w_failed"
          => /\ w_err = "AssertionError"
             /\ wi < Len(pkg)
             /\ Len(utf8_encode(pkg[wi + 1].filename)) > 256
    /\ pc = "written"
          => /\ wi = Len(pkg)
             /\ Len(file) = 12 + SumEntrySizes(pkg, Len(pkg))
             /\ \A i \in 1..Len(pkg) : EntryComplete(i)

C10_Witness ==
    /\ pc = "w_failed"
    /\ wi = 1
    /\ Len(pkg) = 2
    /\ pkg[1].shader_data # << >>
    /\ Len(file) = 12 + 256 + 4 + Len(pkg[1].shader_data)
    /\ how.kind = "none"

====
